---- MODULE Spec2Model ----
(***************************************************************************)
(* Model of sdk/src/postgres/utils/database.rs: the chunked bulk write     *)
(* (execute_in_chunks), its per-chunk sanitize-and-retry policy            *)
(* (execute_or_retry_cleaned, execute_with_better_error) and the bounded   *)
(* connection pool built by new_db_pool.                                   *)
(*                                                                         *)
(* One action per step of a future between two suspension points           *)
(* (pool.get().await, query.execute(conn).await, try_join_all(..).await).  *)
(***************************************************************************)
EXTENDS Integers, Sequences, FiniteSets, TLC

\* ------------------------------------------------------------------ bounds
MaxBatchLen == 2
MaxChunkSize == 2
MaxPoolSize == 1
MaxOtherTasks == 1
MaxWideBatchLen == 8
MaxFieldCount == 12
MaxParams == 3
MaxStrLen == 3
MaxItems == 2

\* --------------------------------------------------------------- constants
DEFAULT_MAX_POOL_SIZE == 150
U16_MAX == 65535
\* (u16::MAX / 2) as usize
MAX_DIESEL_PARAM_SIZE == U16_MAX \div 2

None == [some |-> FALSE]
Some(v) == [some |-> TRUE, value |-> v]

\* A record is a string, i.e. a sequence of characters; "NUL" is the null byte.
\* Batches alternate a record with an embedded null byte and a clean one.
Dirty == <<"a", "NUL">>
Clean == <<"b">>
Batch(n) == [i \in 1..n |-> IF i % 2 = 1 THEN Dirty ELSE Clean]

Batches == {Batch(n) : n \in 0..MaxBatchLen}
ChunkSizes == 0..MaxChunkSize
MaxPoolSizeOptions == {None} \cup {Some(n) : n \in 1..MaxPoolSize}

VARIABLES
    max_pool_size,  \* the Option<u32> given to new_db_pool
    max_size,       \* the max_size the pool was built with
    checkedOut,     \* connections currently checked out of the pool
    call,           \* the invocation of execute_in_chunks under study
    tasks,          \* tasks[i]: the task spawned for chunk i
    firstFailed,    \* chunk whose task was the first to end in Err (0: none yet)
    otherHeld,      \* connections held by chunk tasks of other calls on the same pool
    fnCall          \* the last call of one of the module's pure functions, with its result

vars == <<max_pool_size, max_size, checkedOut, call, tasks, firstFailed, otherHeld, fnCall>>

\* ------------------------------------------------------------ pure helpers

\* remove_null_bytes on one string record: drops every null byte.
RECURSIVE remove_null_bytes(_)
remove_null_bytes(s) ==
    IF s = <<>> THEN <<>>
    ELSE IF Head(s) = "NUL" THEN remove_null_bytes(Tail(s))
    ELSE <<Head(s)>> \o remove_null_bytes(Tail(s))

\* Variant: the flag is ignored and the records are always cleaned.
clean_data_for_db_always(items, should_remove_null_bytes) ==
    [i \in 1..Len(items) |-> remove_null_bytes(items[i])]

clean_data_for_db(items, should_remove_null_bytes) ==
    IF should_remove_null_bytes
    THEN [i \in 1..Len(items) |-> remove_null_bytes(items[i])]
    ELSE items

\* The caller's statement builder: an INSERT carrying the chunk's rows.
build_query(items) == [stmt |-> "insert", values |-> items]

\* diesel::debug_query(&query).to_string(): the statement text with its binds.
debug_string(query) == <<query.stmt, query.values>>

Min(a, b) == IF a < b THEN a ELSE b

\* Variant: only full chunks are produced and a shorter remainder is dropped.
RECURSIVE ChunksExact(_, _)
ChunksExact(items, chunk_size) ==
    IF Len(items) < chunk_size THEN <<>>
    ELSE <<SubSeq(items, 1, chunk_size)>>
         \o ChunksExact(SubSeq(items, chunk_size + 1, Len(items)), chunk_size)

\* Variant: an empty slice yields one empty chunk.
RECURSIVE ChunksNeverEmpty(_, _)
ChunksNeverEmpty(items, chunk_size) ==
    IF Len(items) <= chunk_size THEN <<items>>
    ELSE <<SubSeq(items, 1, chunk_size)>>
         \o ChunksNeverEmpty(SubSeq(items, chunk_size + 1, Len(items)), chunk_size)

\* slice::chunks(chunk_size) for chunk_size > 0.
RECURSIVE Chunks(_, _)
Chunks(items, chunk_size) ==
    IF items = <<>> THEN <<>>
    ELSE LET n == Min(chunk_size, Len(items))
         IN <<SubSeq(items, 1, n)>> \o Chunks(SubSeq(items, n + 1, Len(items)), chunk_size)

\* Variant: the configured size is ignored and the default is always used.
new_db_pool_default_only(opt) == DEFAULT_MAX_POOL_SIZE

\* Pool::builder().max_size(max_pool_size.unwrap_or(DEFAULT_MAX_POOL_SIZE))
new_db_pool(opt) == IF opt.some THEN opt.value ELSE DEFAULT_MAX_POOL_SIZE

\* ProcessorError::DBStoreError { message, query }.  origin identifies the
\* error value: the chunk task and the attempt that created it.
DBStoreError(message, query, origin) ==
    [message |-> message, query |-> Some(query), origin |-> origin]

Ok == [kind |-> "ok"]
Err(e) == [kind |-> "err", err |-> e]
NoResult == [kind |-> "none"]

\* ---------------------------------------------------------------- initial

NoCall == [op |-> "none"]

Init ==
    /\ max_pool_size \in MaxPoolSizeOptions
    /\ max_size = new_db_pool(max_pool_size)
    /\ checkedOut = {}
    /\ call = [status |-> "idle", items |-> <<>>, chunk_size |-> 0, result |-> NoResult]
    /\ tasks = <<>>
    /\ firstFailed = 0
    /\ otherHeld = {}
    /\ fnCall = NoCall

\* ------------------------------------------------------------------ tasks

NewTask(chunk) ==
    [pc |-> "start", items |-> chunk, query |-> build_query(<<>>),
     held |-> {}, attempts |-> <<>>, res |-> NoResult]

\* Variant: a chunk size of 0 is noticed only when there is a record to put
\* into a chunk, so the empty batch passes.
execute_in_chunks_lazy_split(items, chunk_size) ==
    /\ call.status = "idle"
    /\ IF chunk_size = 0 /\ items # <<>>
       THEN /\ call' = [call EXCEPT !.status = "split_panicked", !.items = items,
                                    !.chunk_size = chunk_size]
            /\ UNCHANGED tasks
       ELSE /\ call' = [call EXCEPT !.status = "joining", !.items = items,
                                    !.chunk_size = chunk_size]
            /\ tasks' = IF chunk_size = 0 THEN <<>>
                        ELSE LET cs == Chunks(items, chunk_size)
                             IN [i \in 1..Len(cs) |-> NewTask(cs[i])]
    /\ UNCHANGED <<fnCall, max_pool_size, max_size, checkedOut, firstFailed, otherHeld>>

\* execute_in_chunks up to the try_join_all await: split and spawn.
\* slice::chunks panics when chunk_size is 0.
execute_in_chunks(items, chunk_size) ==
    /\ call.status = "idle"
    /\ IF chunk_size = 0
       THEN /\ call' = [call EXCEPT !.status = "split_panicked", !.items = items,
                                    !.chunk_size = chunk_size]
            /\ UNCHANGED tasks
       ELSE /\ call' = [call EXCEPT !.status = "joining", !.items = items,
                                    !.chunk_size = chunk_size]
            /\ tasks' = LET cs == Chunks(items, chunk_size)
                        IN [i \in 1..Len(cs) |-> NewTask(cs[i])]
    /\ UNCHANGED <<fnCall, max_pool_size, max_size, checkedOut, firstFailed, otherHeld>>

Pending(query) == [query |-> query, outcome |-> "pending"]

SetOutcome(attempts, outcome) ==
    [attempts EXCEPT ![Len(attempts)].outcome = outcome]

\* First poll of the spawned task: build the statement from the chunk and
\* enter execute_or_retry_cleaned / execute_with_better_error up to pool.get().
TaskStart(i) ==
    /\ i \in DOMAIN tasks
    /\ tasks[i].pc = "start"
    /\ LET q == build_query(tasks[i].items)
       IN tasks' = [tasks EXCEPT ![i].query = q,
                                 ![i].attempts = <<Pending(q)>>,
                                 ![i].pc = "get"]
    /\ UNCHANGED <<fnCall, max_pool_size, max_size, checkedOut, call, firstFailed, otherHeld>>

\* The caller's build_query panics on the first build: the task ends abnormally.
TaskPanic(i) ==
    /\ i \in DOMAIN tasks
    /\ tasks[i].pc = "start"
    /\ tasks' = [tasks EXCEPT ![i].pc = "panicked"]
    /\ UNCHANGED <<fnCall, max_pool_size, max_size, checkedOut, call, firstFailed, otherHeld>>

\* Variant: the retry statement is rebuilt from the items as they were,
\* without sanitizing them.
execute_or_retry_unclean(t, r, rebuildPanics) ==
    IF r.kind = "ok"
    THEN [t EXCEPT !.pc = "done", !.res = Ok]
    ELSE IF Len(t.attempts) = 1
    THEN IF rebuildPanics
         THEN [t EXCEPT !.pc = "panicked"]
         ELSE LET cleaned_items == clean_data_for_db(t.items, FALSE)
                  cleaned_query == build_query(cleaned_items)
              IN [t EXCEPT !.items = cleaned_items,
                           !.query = cleaned_query,
                           !.attempts = Append(@, Pending(cleaned_query)),
                           !.pc = "get"]
    ELSE [t EXCEPT !.pc = "done", !.res = Err(r.err)]

\* Variant: a failed second attempt is followed by yet another attempt.
execute_or_retry_again(t, r, rebuildPanics) ==
    IF r.kind = "ok"
    THEN [t EXCEPT !.pc = "done", !.res = Ok]
    ELSE IF rebuildPanics /\ Len(t.attempts) = 1
    THEN [t EXCEPT !.pc = "panicked"]
    ELSE IF Len(t.attempts) <= 2
    THEN LET cleaned_items == clean_data_for_db(t.items, TRUE)
             cleaned_query == build_query(cleaned_items)
         IN [t EXCEPT !.items = cleaned_items,
                      !.query = cleaned_query,
                      !.attempts = Append(@, Pending(cleaned_query)),
                      !.pc = "get"]
    ELSE [t EXCEPT !.pc = "done", !.res = Err(r.err)]

\* Variant: the first attempt's error is kept and reported although the
\* second attempt succeeded.
execute_or_retry_keep_first_on_ok(t, r, rebuildPanics) ==
    IF r.kind = "ok"
    THEN [t EXCEPT !.pc = "done", !.res = IF t.res.kind = "err" THEN t.res ELSE Ok]
    ELSE IF Len(t.attempts) = 1
    THEN IF rebuildPanics
         THEN [t EXCEPT !.pc = "panicked"]
         ELSE LET cleaned_items == clean_data_for_db(t.items, TRUE)
                  cleaned_query == build_query(cleaned_items)
              IN [t EXCEPT !.items = cleaned_items,
                           !.query = cleaned_query,
                           !.attempts = Append(@, Pending(cleaned_query)),
                           !.res = Err(r.err),
                           !.pc = "get"]
    ELSE [t EXCEPT !.pc = "done", !.res = Err(r.err)]

\* Variant: when both attempts fail the first attempt's error is returned.
execute_or_retry_keep_first_on_err(t, r, rebuildPanics) ==
    IF r.kind = "ok"
    THEN [t EXCEPT !.pc = "done", !.res = Ok]
    ELSE IF Len(t.attempts) = 1
    THEN IF rebuildPanics
         THEN [t EXCEPT !.pc = "panicked"]
         ELSE LET cleaned_items == clean_data_for_db(t.items, TRUE)
                  cleaned_query == build_query(cleaned_items)
              IN [t EXCEPT !.items = cleaned_items,
                           !.query = cleaned_query,
                           !.attempts = Append(@, Pending(cleaned_query)),
                           !.res = Err(r.err),
                           !.pc = "get"]
    ELSE [t EXCEPT !.pc = "done"]

\* Variant: the sanitized statement is executed after the first attempt
\* whatever its result was.
execute_or_retry_always(t, r, rebuildPanics) ==
    IF Len(t.attempts) = 1
    THEN IF rebuildPanics /\ r.kind # "ok"
         THEN [t EXCEPT !.pc = "panicked"]
         ELSE LET cleaned_items == clean_data_for_db(t.items, TRUE)
                  cleaned_query == build_query(cleaned_items)
              IN [t EXCEPT !.items = cleaned_items,
                           !.query = cleaned_query,
                           !.attempts = Append(@, Pending(cleaned_query)),
                           !.pc = "get"]
    ELSE IF r.kind = "ok"
    THEN [t EXCEPT !.pc = "done", !.res = Ok]
    ELSE [t EXCEPT !.pc = "done", !.res = Err(r.err)]

\* The match in execute_or_retry_cleaned on the result r of the attempt that
\* just ended, for a task record t whose connection guard is already dropped.
\* rebuildPanics: the statement builder panics on the sanitized items.
execute_or_retry_cleaned(t, r, rebuildPanics) ==
    IF r.kind = "ok"
    THEN [t EXCEPT !.pc = "done", !.res = Ok]
    ELSE IF Len(t.attempts) = 1
    THEN IF rebuildPanics
         THEN [t EXCEPT !.pc = "panicked"]
         ELSE LET cleaned_items == clean_data_for_db(t.items, TRUE)
                  cleaned_query == build_query(cleaned_items)
              IN [t EXCEPT !.items = cleaned_items,
                           !.query = cleaned_query,
                           !.attempts = Append(@, Pending(cleaned_query)),
                           !.pc = "get"]
    ELSE [t EXCEPT !.pc = "done", !.res = Err(r.err)]

\* Install the task's next record; note the first task to end in Err.
Advance(i, t) ==
    /\ tasks' = [tasks EXCEPT ![i] = t]
    /\ firstFailed' = IF firstFailed = 0 /\ t.res.kind = "err" THEN i ELSE firstFailed

FreeConns == (1..max_size) \ checkedOut

\* The pool hands out one idle connection; connections are interchangeable,
\* the lowest-numbered free one is taken.
PickConn == CHOOSE c \in FreeConns : \A d \in FreeConns : c <= d

\* pool.get().await resolves with a connection (only when one is free).
Get(i) ==
    /\ i \in DOMAIN tasks
    /\ tasks[i].pc = "get"
    /\ FreeConns # {}
    /\ checkedOut' = checkedOut \cup {PickConn}
    /\ tasks' = [tasks EXCEPT ![i].held = @ \cup {PickConn},
                              ![i].pc = "exec"]
    /\ UNCHANGED <<fnCall, max_pool_size, max_size, call, firstFailed, otherHeld>>

\* Variant: the acquisition error is not propagated and the statement is
\* executed although no connection was obtained.
GetFail_falls_through(i, rebuildPanics) ==
    /\ i \in DOMAIN tasks
    /\ tasks[i].pc = "get"
    /\ tasks' = [tasks EXCEPT ![i].pc = "exec"]
    /\ UNCHANGED <<fnCall, max_pool_size, max_size, checkedOut, call, firstFailed, otherHeld>>

\* pool.get().await resolves with an error: map_err + `?` leave
\* execute_with_better_error at once, with no connection and no execution.
GetFail(i, rebuildPanics) ==
    /\ i \in DOMAIN tasks
    /\ tasks[i].pc = "get"
    /\ LET t == tasks[i]
           e == DBStoreError("pool", debug_string(t.query), <<i, Len(t.attempts)>>)
           t1 == [t EXCEPT !.attempts = SetOutcome(@, "pool")]
       IN Advance(i, execute_or_retry_cleaned(t1, Err(e), rebuildPanics))
    /\ UNCHANGED <<fnCall, max_pool_size, max_size, checkedOut, call, otherHeld>>

\* Variant: the connection guard outlives a failed attempt, so the task still
\* holds it when it acquires again for the retry.
Execute_keeps_conn_on_error(i, success, rebuildPanics) ==
    /\ i \in DOMAIN tasks
    /\ tasks[i].pc = "exec"
    /\ LET t == tasks[i]
           e == DBStoreError("db", debug_string(t.query), <<i, Len(t.attempts)>>)
           keep == ~success /\ Len(t.attempts) = 1 /\ ~rebuildPanics
           t1 == [t EXCEPT !.attempts = SetOutcome(@, IF success THEN "ok" ELSE "db"),
                           !.held = IF keep THEN @ ELSE {}]
           r == IF success THEN Ok ELSE Err(e)
       IN /\ Advance(i, execute_or_retry_cleaned(t1, r, rebuildPanics))
          /\ checkedOut' = IF keep THEN checkedOut ELSE checkedOut \ t.held
    /\ UNCHANGED <<fnCall, max_pool_size, max_size, call, otherHeld>>

\* Variant: the connection is never given back to the pool.
Execute_leaks_conn(i, success, rebuildPanics) ==
    /\ i \in DOMAIN tasks
    /\ tasks[i].pc = "exec"
    /\ LET t == tasks[i]
           e == DBStoreError("db", debug_string(t.query), <<i, Len(t.attempts)>>)
           t1 == [t EXCEPT !.attempts = SetOutcome(@, IF success THEN "ok" ELSE "db"),
                           !.held = {}]
           r == IF success THEN Ok ELSE Err(e)
       IN /\ Advance(i, execute_or_retry_cleaned(t1, r, rebuildPanics))
          /\ checkedOut' = checkedOut
    /\ UNCHANGED <<fnCall, max_pool_size, max_size, call, otherHeld>>

\* query.execute(conn).await resolves; execute_with_better_error returns and
\* its connection guard is dropped, then the caller matches on the result.
Execute(i, success, rebuildPanics) ==
    /\ i \in DOMAIN tasks
    /\ tasks[i].pc = "exec"
    /\ LET t == tasks[i]
           e == DBStoreError("db", debug_string(t.query), <<i, Len(t.attempts)>>)
           t1 == [t EXCEPT !.attempts = SetOutcome(@, IF success THEN "ok" ELSE "db"),
                           !.held = {}]
           r == IF success THEN Ok ELSE Err(e)
       IN /\ Advance(i, execute_or_retry_cleaned(t1, r, rebuildPanics))
          /\ checkedOut' = checkedOut \ t.held
    /\ UNCHANGED <<fnCall, max_pool_size, max_size, call, otherHeld>>

\* A chunk task of another execute_in_chunks call on the same ArcDbPool
\* gets a connection in its execute_with_better_error ...
OtherGet ==
    /\ Cardinality(otherHeld) < MaxOtherTasks
    /\ FreeConns # {}
    /\ checkedOut' = checkedOut \cup {PickConn}
    /\ otherHeld' = otherHeld \cup {PickConn}
    /\ UNCHANGED <<fnCall, max_pool_size, max_size, call, tasks, firstFailed>>

\* ... and drops it when that execute_with_better_error returns.
OtherRelease(c) ==
    /\ c \in otherHeld
    /\ checkedOut' = checkedOut \ {c}
    /\ otherHeld' = otherHeld \ {c}
    /\ UNCHANGED <<fnCall, max_pool_size, max_size, call, tasks, firstFailed>>

\* ------------------------------------------------------------------- join

\* Variant: the last Err in chunk-index order is returned.
RECURSIVE LastError(_)
LastError(results) ==
    IF results = <<>> THEN Ok
    ELSE IF results[Len(results)].kind = "err" THEN results[Len(results)]
    ELSE LastError(SubSeq(results, 1, Len(results) - 1))

\* `for res in results { res? }`: the first Err in chunk-index order, else Ok.
RECURSIVE FirstError(_)
FirstError(results) ==
    IF results = <<>> THEN Ok
    ELSE IF Head(results).kind = "err" THEN Head(results)
    ELSE FirstError(Tail(results))

\* Variant: the join returns as soon as one task has ended in Err.
JoinReturn_on_first_error ==
    /\ call.status = "joining"
    /\ \/ \A i \in DOMAIN tasks : tasks[i].pc = "done"
       \/ \E i \in DOMAIN tasks : tasks[i].res.kind = "err"
    /\ call' = [call EXCEPT !.status = "returned",
                            !.result = FirstError([i \in DOMAIN tasks |-> tasks[i].res])]
    /\ UNCHANGED <<fnCall, max_pool_size, max_size, checkedOut, tasks, firstFailed, otherHeld>>

\* Variant: the join ignores JoinErrors and returns once every task has ended.
JoinReturn_ignoring_panics ==
    /\ call.status = "joining"
    /\ \A i \in DOMAIN tasks : tasks[i].pc \in {"done", "panicked"}
    /\ call' = [call EXCEPT !.status = "returned",
                            !.result = FirstError([i \in DOMAIN tasks |-> tasks[i].res])]
    /\ UNCHANGED <<fnCall, max_pool_size, max_size, checkedOut, tasks, firstFailed, otherHeld>>

\* try_join_all resolves Ok once every JoinHandle has resolved Ok.
JoinReturn ==
    /\ call.status = "joining"
    /\ \A i \in DOMAIN tasks : tasks[i].pc = "done"
    /\ call' = [call EXCEPT !.status = "returned",
                            !.result = FirstError([i \in DOMAIN tasks |-> tasks[i].res])]
    /\ UNCHANGED <<fnCall, max_pool_size, max_size, checkedOut, tasks, firstFailed, otherHeld>>

\* try_join_all resolves Err as soon as it polls a JoinHandle that resolved
\* with a JoinError (the task panicked); .expect() then panics.
JoinAbort ==
    /\ call.status = "joining"
    /\ \E i \in DOMAIN tasks : tasks[i].pc = "panicked"
    /\ call' = [call EXCEPT !.status = "join_panicked"]
    /\ UNCHANGED <<fnCall, max_pool_size, max_size, checkedOut, tasks, firstFailed, otherHeld>>

TaskIds == 1..MaxBatchLen

Next ==
    \/ \E items \in Batches, chunk_size \in ChunkSizes : execute_in_chunks(items, chunk_size)
    \/ \E i \in TaskIds : TaskStart(i)
    \/ \E i \in TaskIds : TaskPanic(i)
    \/ \E i \in TaskIds : Get(i)
    \/ \E i \in TaskIds, p \in BOOLEAN : GetFail(i, p)
    \/ \E i \in TaskIds, s \in BOOLEAN, p \in BOOLEAN : Execute(i, s, p)
    \/ OtherGet
    \/ \E c \in 1..(MaxPoolSize + MaxOtherTasks) : OtherRelease(c)
    \/ JoinReturn
    \/ JoinAbort

Spec == Init /\ [][Next]_vars

TypeOK ==
    /\ max_size \in 1..DEFAULT_MAX_POOL_SIZE
    /\ checkedOut \subseteq 1..max_size
    /\ call.status \in {"idle", "joining", "returned", "split_panicked", "join_panicked"}

\* ------------------------------------------------------------- properties

TaskSet == DOMAIN tasks
Returned == call.status = "returned"
Ended(t) == t.pc \in {"done", "panicked"}

\* The chunk the task for index i was spawned with.
ChunkOf(i) == Chunks(call.items, call.chunk_size)[i]

FailingChunks == {i \in TaskSet : tasks[i].res.kind = "err"}
LowestFailing == CHOOSE i \in FailingChunks : \A j \in FailingChunks : i <= j

FailedThenOk(i) ==
    /\ Len(tasks[i].attempts) = 2
    /\ tasks[i].attempts[1].outcome \in {"pool", "db"}
    /\ tasks[i].attempts[2].outcome = "ok"

\* C1: when no task panics, execute_in_chunks returns Ok exactly when every
\* chunk ended in terminal success, and otherwise the terminal error of the
\* failing chunk with the lowest index, whatever order the tasks finished in.
C1_ResultIsLowestFailingChunk ==
    Returned =>
        /\ (call.result = Ok) <=> (\A i \in TaskSet : tasks[i].res = Ok)
        /\ FailingChunks # {} => call.result = tasks[LowestFailing].res

\* The higher-index chunk failed first, the lower-index chunk's error is returned.
C1_Witness ==
    /\ Returned
    /\ FailingChunks = {1, 2}
    /\ firstFailed = 2
    /\ call.result = tasks[1].res
    /\ call.result # tasks[2].res

\* C2: a chunk makes at most two attempts, one after the other; the first runs
\* the statement built from the unsanitized chunk, the second starts only
\* after the first failed and runs the statement rebuilt from the sanitized
\* items; a successful attempt is the chunk's last.
C2_AtMostTwoSequentialAttempts ==
    \A i \in TaskSet :
        LET t == tasks[i]
            a == t.attempts
        IN /\ Len(a) <= 2
           /\ Len(a) >= 1 => a[1].query = build_query(ChunkOf(i))
           /\ Len(a) = 2 =>
                 /\ a[1].outcome \in {"pool", "db"}
                 /\ a[2].query = build_query(clean_data_for_db(ChunkOf(i), TRUE))
           /\ \A j \in 1..Len(a) :
                 /\ a[j].outcome = "pending" => j = Len(a) /\ t.pc \in {"get", "exec"}
                 /\ a[j].outcome = "ok" => j = Len(a) /\ t.pc = "done"
           /\ t.pc = "exec" => t.query = a[Len(a)].query

\* A chunk holding a null byte failed once and succeeded with the sanitized statement.
C2_Witness ==
    \E i \in TaskSet :
        /\ FailedThenOk(i)
        /\ tasks[i].attempts[1].outcome = "db"
        /\ tasks[i].attempts[1].query # tasks[i].attempts[2].query

\* C3 (as claimed): after an acquisition failure the chunk makes no further
\* acquisition and no further statement execution.
C3_AcquisitionFailureEndsChunk ==
    \A i \in TaskSet :
        \A j \in 1..Len(tasks[i].attempts) :
            tasks[i].attempts[j].outcome = "pool" => j = Len(tasks[i].attempts)

\* C3 (amended): an acquisition failure in the first attempt is followed by
\* exactly one second attempt (unless rebuilding the statement panics); an
\* acquisition failure in the second attempt ends the chunk with that error,
\* which execute_in_chunks returns when no lower-index chunk failed.
C3_AcquisitionFailureRetriedOnce ==
    \A i \in TaskSet :
        LET t == tasks[i]
            a == t.attempts
        IN /\ Len(a) <= 2
           /\ (Len(a) >= 1 /\ a[1].outcome = "pool") => (Len(a) = 2 \/ t.pc = "panicked")
           /\ (Len(a) = 2 /\ a[2].outcome = "pool") =>
                 /\ t.pc = "done"
                 /\ t.res = Err(DBStoreError("pool", debug_string(a[2].query), <<i, 2>>))
                 /\ (Returned /\ \A j \in 1..(i - 1) : tasks[j].res = Ok) =>
                        call.result = t.res

\* Both acquisitions of a chunk failed and the caller got the second error.
C3_Witness ==
    /\ Returned
    /\ \E i \in TaskSet :
          /\ Len(tasks[i].attempts) = 2
          /\ tasks[i].attempts[1].outcome = "pool"
          /\ tasks[i].attempts[2].outcome = "pool"
          /\ call.result = tasks[i].res

\* C4: a chunk whose first attempt failed and whose second attempt succeeded
\* reports success, and the first attempt's error is no part of what
\* execute_in_chunks returns.
C4_RecoveredFailureNotSurfaced ==
    \A i \in TaskSet :
        FailedThenOk(i) =>
            /\ tasks[i].pc = "done"
            /\ tasks[i].res = Ok
            /\ (Returned /\ call.result.kind = "err") => call.result.err.origin[1] # i

\* The only chunk recovered on its second attempt and the call returned Ok.
C4_Witness ==
    /\ Returned
    /\ call.result = Ok
    /\ \E i \in TaskSet : FailedThenOk(i)

\* C5: when both attempts fail, the chunk's terminal error is the second
\* attempt's error: its message and the text of the statement rebuilt from
\* the sanitized items, not the first attempt's error.
C5_TerminalErrorIsSecond ==
    \A i \in TaskSet :
        tasks[i].res.kind = "err" =>
            LET a == tasks[i].attempts
                e == tasks[i].res.err
            IN /\ Len(a) = 2
               /\ e.message = a[2].outcome
               /\ e.query = Some(debug_string(build_query(clean_data_for_db(ChunkOf(i), TRUE))))
               /\ e.origin = <<i, 2>>

\* The two attempts failed differently, on different statement texts.
C5_Witness ==
    \E i \in TaskSet :
        /\ tasks[i].res.kind = "err"
        /\ tasks[i].attempts[1].outcome = "pool"
        /\ tasks[i].attempts[2].outcome = "db"
        /\ tasks[i].attempts[1].query # tasks[i].attempts[2].query

\* C6: the number of connections checked out of the pool never exceeds the
\* configured max_size, which is 150 when max_pool_size is unset.
C6_PoolNeverExceedsMaxSize ==
    Cardinality(checkedOut) <= (IF max_pool_size.some THEN max_pool_size.value ELSE 150)

\* A pool of one connection is held by a task of another call while a chunk
\* task of this call waits for it.
C6_Witness ==
    /\ max_pool_size = Some(1)
    /\ Cardinality(checkedOut) = 1
    /\ otherHeld # {}
    /\ \E i \in TaskSet : tasks[i].pc = "get"

\* C7: a chunk task holds at most one connection, and none outside an
\* attempt: not before its first acquisition, not between a failed first
\* attempt and the retry's acquisition, and not once it has ended; what the
\* tasks hold is exactly what is checked out of the pool.
C7_ConnectionReleasedOnEveryPath ==
    /\ \A i \in TaskSet :
          /\ Cardinality(tasks[i].held) <= 1
          /\ tasks[i].pc \in {"start", "get", "done", "panicked"} => tasks[i].held = {}
    /\ checkedOut = UNION {tasks[i].held : i \in TaskSet} \cup otherHeld

\* A chunk executed and failed twice and has given both connections back.
C7_Witness ==
    \E i \in TaskSet :
        /\ tasks[i].pc = "done"
        /\ Len(tasks[i].attempts) = 2
        /\ tasks[i].attempts[1].outcome = "db"
        /\ tasks[i].attempts[2].outcome = "db"
        /\ tasks[i].held = {}
        /\ checkedOut = {}

Executed(t) == Cardinality({j \in 1..Len(t.attempts) : t.attempts[j].outcome \in {"ok", "db"}})

C8_ExclusiveWhileExecuting ==
    /\ \A i \in TaskSet :
          /\ tasks[i].pc = "exec" =>
                Cardinality(tasks[i].held) = 1 /\ tasks[i].held \subseteq checkedOut
          /\ tasks[i].held \cap otherHeld = {}
    /\ \A i, j \in TaskSet : i # j => tasks[i].held \cap tasks[j].held = {}

C8_ExecutionNeedsConnection ==
    \A i \in TaskSet :
        (i \in DOMAIN tasks' /\ Executed(tasks'[i]) > Executed(tasks[i])) =>
            Cardinality(tasks[i].held) = 1

\* C8: a chunk task executes a statement only while it holds a connection it
\* got from the pool, and no connection is held by two tasks at once.
C8_StatementsRunOnOwnConnection ==
    []C8_ExclusiveWhileExecuting /\ [][C8_ExecutionNeedsConnection]_vars

\* Two chunk tasks execute at the same time, each on its own connection.
C8_Witness ==
    \E i, j \in TaskSet :
        /\ i # j
        /\ tasks[i].pc = "exec"
        /\ tasks[j].pc = "exec"
        /\ tasks[i].held # tasks[j].held

\* C9 (as claimed): execute_in_chunks neither returns nor aborts before every
\* chunk task it launched has finished.
C9_CompletesOnlyAfterAllTasks ==
    call.status \in {"returned", "join_panicked"} => \A i \in TaskSet : Ended(tasks[i])

\* C9 (amended): execute_in_chunks returns a result only after every chunk
\* task has finished, and a structured error of one chunk does not end the
\* call while others run; it aborts only when a chunk task has panicked (and
\* may then do so while other chunk tasks are still running).
C9_ReturnsOnlyAfterAllTasks ==
    /\ Returned => \A i \in TaskSet : tasks[i].pc = "done"
    /\ call.status = "join_panicked" => \E i \in TaskSet : tasks[i].pc = "panicked"
    /\ (/\ call.status # "idle"
        /\ \E i \in TaskSet : ~Ended(tasks[i])
        /\ \A i \in TaskSet : tasks[i].pc # "panicked") => call.status = "joining"

\* One chunk has ended in a structured error, another is still running, and
\* the call is still waiting.
C9_Witness ==
    /\ call.status = "joining"
    /\ \E i \in TaskSet : tasks[i].pc = "done" /\ tasks[i].res.kind = "err"
    /\ \E i \in TaskSet : tasks[i].pc = "exec"

C10_NoResultAfterPanic ==
    (\E i \in TaskSet : tasks[i].pc = "panicked") =>
        /\ ~Returned
        /\ call.result = NoResult
        /\ call.status = "joining" => ENABLED JoinAbort

C10_PanickedTaskNotRetried ==
    \A i \in TaskSet : tasks[i].pc = "panicked" => tasks'[i] = tasks[i]

\* C10: if a chunk task panics, execute_in_chunks aborts: it returns neither
\* Ok nor a structured error, and the panicked chunk makes no further attempt.
C10_PanicAbortsCall ==
    []C10_NoResultAfterPanic /\ [][C10_PanickedTaskNotRetried]_vars

\* The call aborted on a chunk that panicked while rebuilding its statement
\* for the retry, although the other chunk had succeeded.
C10_Witness ==
    /\ call.status = "join_panicked"
    /\ \E i \in TaskSet : tasks[i].pc = "panicked" /\ Len(tasks[i].attempts) = 1
    /\ \E i \in TaskSet : tasks[i].res = Ok

\* Any step of the task for chunk i.
TaskStep(i) ==
    \/ TaskStart(i)
    \/ TaskPanic(i)
    \/ Get(i)
    \/ \E p \in BOOLEAN : GetFail(i, p)
    \/ \E s \in BOOLEAN, p \in BOOLEAN : Execute(i, s, p)

\* Number of attempts of the task that the store accepted (committed).
Committed(t) == Cardinality({j \in 1..Len(t.attempts) : t.attempts[j].outcome = "ok"})

C11_ChunksIndependent ==
    /\ \A i \in TaskSet :
          /\ Committed(tasks[i]) <= 1
          /\ tasks[i].res = Ok => Committed(tasks[i]) = 1
          /\ (FailingChunks # {} /\ ~Ended(tasks[i])) => ENABLED TaskStep(i)
    /\ Returned => \A i \in TaskSet : tasks[i].pc = "done"

C11_NoRollback ==
    \A i \in TaskSet :
        i \in DOMAIN tasks' /\ Committed(tasks'[i]) >= Committed(tasks[i])

\* C11: a chunk that fails on both attempts does not stop the other chunks
\* from running to a terminal state; a chunk committed by a successful
\* attempt stays committed although execute_in_chunks returns an error, and
\* no chunk is committed by more than one successful attempt.
C11_IndependentAtMostOnce ==
    []C11_ChunksIndependent /\ [][C11_NoRollback]_vars

\* The first chunk was the first to fail and the call returned its error,
\* although the second chunk is committed.
C11_Witness ==
    /\ Returned
    /\ call.result.kind = "err"
    /\ firstFailed = 1
    /\ Len(tasks) = 2
    /\ Committed(tasks[2]) = 1

\* ------------------------------------------------- splitting, on its own

\* Batches of pairwise different records, and chunk sizes up to one more
\* than the longest batch.
WideBatch(n) == [i \in 1..n |-> <<"r", ToString(i)>>]
WideBatches == {WideBatch(n) : n \in 0..MaxWideBatchLen}
WideChunkSizes == 0..(MaxWideBatchLen + 1)

NextChunks ==
    \E items \in WideBatches, chunk_size \in WideChunkSizes :
        execute_in_chunks(items, chunk_size)

SpecChunks == Init /\ [][NextChunks]_vars

\* The items the task for chunk i was spawned with.
SpawnedWith(i) ==
    IF tasks[i].attempts = <<>> THEN tasks[i].items ELSE tasks[i].attempts[1].query.values

RECURSIVE Concat(_)
Concat(ss) == IF ss = <<>> THEN <<>> ELSE Head(ss) \o Concat(Tail(ss))

CeilDiv(n, k) == (n + k - 1) \div k

\* C12: for a batch of N records and chunk size k >= 1 execute_in_chunks
\* launches ceil(N/k) chunk tasks; chunk i is the contiguous run of records
\* (i-1)k+1 .. min(ik, N), so every chunk has k records except possibly the
\* last, which has between 1 and k, and the chunks in index order
\* concatenate to the batch (10000 records by 6553: chunks of 6553 and 3447).
C12_ChunksPartitionBatch ==
    /\ (call.status # "idle" /\ call.chunk_size >= 1) =>
          LET N == Len(call.items)
              k == call.chunk_size
          IN /\ Len(tasks) = CeilDiv(N, k)
             /\ \A i \in TaskSet :
                   /\ SpawnedWith(i) = SubSeq(call.items, (i - 1) * k + 1, Min(i * k, N))
                   /\ Len(SpawnedWith(i)) >= 1
                   /\ Len(SpawnedWith(i)) <= k
                   /\ i < Len(tasks) => Len(SpawnedWith(i)) = k
             /\ Concat([i \in TaskSet |-> SpawnedWith(i)]) = call.items
    /\ LET cs == Chunks([i \in 1..10000 |-> 0], 6553)
       IN [i \in DOMAIN cs |-> Len(cs[i])] = <<6553, 3447>>

\* Seven records by chunks of three: two full chunks and a last one of one record.
C12_Witness ==
    /\ call.status = "joining"
    /\ Len(call.items) = 7
    /\ call.chunk_size = 3
    /\ Len(tasks) = 3
    /\ Len(tasks[3].items) = 1

\* ------------------------------------------------------------- chunk size

\* What a call of a function ends in: a returned value or a panic.
Value(v) == [kind |-> "value", value |-> v]
Panic(cause) == [kind |-> "panic", cause |-> cause]

\* Variant: the whole 16-bit parameter limit is divided, not half of it.
get_config_table_chunk_size_full_limit(table_name, per_table_chunk_sizes, field_count) ==
    IF table_name \in DOMAIN per_table_chunk_sizes
    THEN Value(per_table_chunk_sizes[table_name])
    ELSE IF field_count = 0 THEN Panic("attempt to divide by zero")
    ELSE Value(U16_MAX \div field_count)

\* Variant: an override is capped by what the parameter ceiling allows.
get_config_table_chunk_size_capped(table_name, per_table_chunk_sizes, field_count) ==
    IF field_count = 0 THEN Panic("attempt to divide by zero")
    ELSE IF table_name \in DOMAIN per_table_chunk_sizes
    THEN Value(Min(per_table_chunk_sizes[table_name], MAX_DIESEL_PARAM_SIZE \div field_count))
    ELSE Value(MAX_DIESEL_PARAM_SIZE \div field_count)

\* Variant: a zero field count yields a chunk size of 0 instead of a panic.
get_config_table_chunk_size_zero(table_name, per_table_chunk_sizes, field_count) ==
    IF table_name \in DOMAIN per_table_chunk_sizes
    THEN Value(per_table_chunk_sizes[table_name])
    ELSE IF field_count = 0 THEN Value(0)
    ELSE Value(MAX_DIESEL_PARAM_SIZE \div field_count)

\* per_table_chunk_sizes.get(table_name).copied()
\*     .unwrap_or_else(|| MAX_DIESEL_PARAM_SIZE / T::field_count())
\* The closure runs only without an override; the usize division panics on 0.
get_config_table_chunk_size(table_name, per_table_chunk_sizes, field_count) ==
    LET chunk_size == IF table_name \in DOMAIN per_table_chunk_sizes
                      THEN Some(per_table_chunk_sizes[table_name])
                      ELSE None
    IN IF chunk_size.some THEN Value(chunk_size.value)
       ELSE IF field_count = 0 THEN Panic("attempt to divide by zero")
       ELSE Value(MAX_DIESEL_PARAM_SIZE \div field_count)

Tables == {"events", "transactions"}
OverrideValues == {0, 1, 500, MAX_DIESEL_PARAM_SIZE + 1}
OverrideMaps == UNION {[S -> OverrideValues] : S \in SUBSET Tables}
FieldCounts ==
    (0..MaxFieldCount)
        \cup {MAX_DIESEL_PARAM_SIZE - 1, MAX_DIESEL_PARAM_SIZE, MAX_DIESEL_PARAM_SIZE + 1, U16_MAX}

CallChunkSize(table_name, per_table_chunk_sizes, field_count) ==
    /\ fnCall' = [op |-> "get_config_table_chunk_size",
                  table_name |-> table_name,
                  per_table_chunk_sizes |-> per_table_chunk_sizes,
                  field_count |-> field_count,
                  out |-> get_config_table_chunk_size(table_name, per_table_chunk_sizes,
                                                      field_count)]
    /\ UNCHANGED <<max_pool_size, max_size, checkedOut, call, tasks, firstFailed, otherHeld>>

\* One call is studied per behaviour.
NextChunkSize ==
    /\ fnCall = NoCall
    /\ \E table_name \in Tables, per_table_chunk_sizes \in OverrideMaps, field_count \in FieldCounts :
       CallChunkSize(table_name, per_table_chunk_sizes, field_count)

SpecChunkSize == Init /\ [][NextChunkSize]_vars

ChunkSizeCalled == fnCall.op = "get_config_table_chunk_size"
Overridden == fnCall.table_name \in DOMAIN fnCall.per_table_chunk_sizes

\* C13: without an override and with field_count > 0 the chunk size is
\* floor(32767 / field_count), 32767 being half of 65535 rounded down, so
\* chunk_size * field_count <= 32767; it is 0 when field_count > 32767.
C13_ChunkSizeIsCeilingOverFields ==
    (ChunkSizeCalled /\ ~Overridden /\ fnCall.field_count > 0) =>
        /\ fnCall.out.kind = "value"
        /\ fnCall.out.value * fnCall.field_count <= 32767
        /\ (fnCall.out.value + 1) * fnCall.field_count > 32767
        /\ fnCall.field_count > 32767 => fnCall.out.value = 0
        /\ MAX_DIESEL_PARAM_SIZE = 32767 /\ U16_MAX = 65535

\* Five fields and no override: 6553 records per chunk.
C13_Witness ==
    /\ ChunkSizeCalled
    /\ ~Overridden
    /\ fnCall.field_count = 5
    /\ fnCall.out = Value(6553)

\* C14: for a table with an override the override is returned as it is,
\* whatever the field count (0 included) and however large the override.
C14_OverrideVerbatim ==
    (ChunkSizeCalled /\ Overridden) =>
        fnCall.out = Value(fnCall.per_table_chunk_sizes[fnCall.table_name])

\* An override above the parameter ceiling, asked for with a field count of 0.
C14_Witness ==
    /\ ChunkSizeCalled
    /\ Overridden
    /\ fnCall.field_count = 0
    /\ fnCall.out.kind = "value"
    /\ fnCall.out.value > 32767

\* C15 (as claimed): without an override and with field_count = 0 the
\* function fails on an assertion and does not divide by zero.
C15_AssertsBeforeDividing ==
    (ChunkSizeCalled /\ ~Overridden /\ fnCall.field_count = 0) =>
        /\ fnCall.out.kind = "panic"
        /\ fnCall.out.cause # "attempt to divide by zero"

\* C15 (amended): without an override and with field_count = 0 the function
\* returns no chunk size: it panics on the division by zero itself.
C15_PanicsOnDivisionByZero ==
    (ChunkSizeCalled /\ ~Overridden /\ fnCall.field_count = 0) =>
        fnCall.out = Panic("attempt to divide by zero")

\* The table has no override although another table has one, and the field count is 0.
C15_Witness ==
    /\ ChunkSizeCalled
    /\ ~Overridden
    /\ fnCall.per_table_chunk_sizes # <<>>
    /\ fnCall.field_count = 0
    /\ fnCall.out.kind = "panic"

\* --------------------------------------------------------- connection URL

\* A query string is a sequence of tokens: names, values, "=" and "&".
\* "%31" is the percent-encoded "1", "+" the form-encoded space.
ParamNames == {"sslrootcert", "x"}
ParamValues == {"/tmp/ca.pem", "1", "%31", "+"}
Params == ParamNames \X ParamValues

RECURSIVE ParamLists(_)
ParamLists(n) ==
    IF n = 0 THEN {<<>>}
    ELSE LET shorter == ParamLists(n - 1)
         IN shorter \cup {Append(ps, q) : ps \in {l \in shorter : Len(l) = n - 1}, q \in Params}

\* The query string that carries the given name=value pairs, "&"-joined.
RECURSIVE Render(_)
Render(pairs) ==
    IF pairs = <<>> THEN <<>>
    ELSE IF Len(pairs) = 1 THEN <<pairs[1][1], "=", pairs[1][2]>>
    ELSE <<pairs[1][1], "=", pairs[1][2], "&">> \o Render(Tail(pairs))

\* url::Url::parse of "postgres://u:p@host/db" with an optional "?query".
Url(pairs) ==
    [base |-> "postgres://u:p@host/db",
     query |-> IF pairs = <<>> THEN None ELSE Some(Render(pairs))]

\* Percent- and form-decoding of one token, as query_pairs does it.
DecodeToken(tok) == IF tok = "%31" THEN "1" ELSE IF tok = "+" THEN " " ELSE tok
Decode(toks) == [i \in 1..Len(toks) |-> DecodeToken(toks[i])]

\* Percent-encoding of one token of a query, as set_query does it.
EncodeToken(tok) == IF tok = " " THEN "%20" ELSE tok
Encode(toks) == [i \in 1..Len(toks) |-> EncodeToken(toks[i])]

\* The tokens up to the first sep, and those after it.
RECURSIVE Before(_, _)
Before(toks, sep) ==
    IF toks = <<>> \/ Head(toks) = sep THEN <<>>
    ELSE <<Head(toks)>> \o Before(Tail(toks), sep)

After(toks, sep) == SubSeq(toks, Len(Before(toks, sep)) + 2, Len(toks))

\* Url::query_pairs: split at "&", drop empty pieces, split each piece at
\* its first "=", decode name and value.
RECURSIVE query_pairs(_)
query_pairs(toks) ==
    IF toks = <<>> THEN <<>>
    ELSE LET piece == Before(toks, "&")
             rest == After(toks, "&")
         IN IF piece = <<>> THEN query_pairs(rest)
            ELSE <<<<Decode(Before(piece, "=")), Decode(After(piece, "="))>>>>
                 \o query_pairs(rest)

\* The for_each closure over the pairs, folded: the certificate path seen
\* last and the query text pushed so far ("{k}={v}&" per other pair).
RECURSIVE CleanPairs(_, _, _)
CleanPairs(pairs, cert_path, query) ==
    IF pairs = <<>> THEN [cert_path |-> cert_path, query |-> query]
    ELSE LET k == pairs[1][1]
             v == pairs[1][2]
         IN IF k = <<"sslrootcert">>
            THEN CleanPairs(Tail(pairs), Some(v), query)
            ELSE CleanPairs(Tail(pairs), cert_path, query \o k \o <<"=">> \o v \o <<"&">>)

parse_and_clean_db_url(url) ==
    LET db_url == url
        pairs == IF db_url.query.some THEN query_pairs(db_url.query.value) ELSE <<>>
        folded == CleanPairs(pairs, None, <<>>)
    IN [url |-> [db_url EXCEPT !.query = Some(Encode(folded.query))],
        cert_path |-> folded.cert_path]

CallParseUrl(pairs) ==
    /\ fnCall' = [op |-> "parse_and_clean_db_url",
                  pairs |-> pairs,
                  url |-> Url(pairs),
                  out |-> parse_and_clean_db_url(Url(pairs))]
    /\ UNCHANGED <<max_pool_size, max_size, checkedOut, call, tasks, firstFailed, otherHeld>>

\* One call is studied per behaviour.
NextUrl ==
    /\ fnCall = NoCall
    /\ \E pairs \in ParamLists(MaxParams) : CallParseUrl(pairs)

SpecUrl == Init /\ [][NextUrl]_vars

UrlParsed == fnCall.op = "parse_and_clean_db_url"

CertValues == {fnCall.pairs[i][2] : i \in {j \in 1..Len(fnCall.pairs) : fnCall.pairs[j][1] = "sslrootcert"}}

OtherParams == SelectSeq(fnCall.pairs, LAMBDA q : q[1] # "sslrootcert")

QueryText(url) == IF url.query.some THEN url.query.value ELSE <<>>

\* C16: parse_and_clean_db_url returns the value of the sslrootcert
\* parameter as certificate path (none when there is no such parameter) and
\* a cleaned URL without sslrootcert whose query string is exactly the other
\* parameters, unchanged and in order, as name=value pairs joined by "&".
C16_OtherParamsPassThrough ==
    UrlParsed =>
        /\ IF CertValues = {}
           THEN fnCall.out.cert_path = None
           ELSE fnCall.out.cert_path.some /\ fnCall.out.cert_path.value[1] \in CertValues
        /\ \A i \in 1..Len(QueryText(fnCall.out.url)) :
              QueryText(fnCall.out.url)[i] # "sslrootcert"
        /\ QueryText(fnCall.out.url) = Render(OtherParams)

\* ---------------------------------------------------------------- cleaning

\* The sequences over S of length at most n.
SeqsUpTo(S, n) == UNION {[1..k -> S] : k \in 0..n}

\* Records are strings over a letter and the null byte.
Strings == SeqsUpTo({"a", "NUL"}, MaxStrLen)
ItemLists == SeqsUpTo(Strings, MaxItems)

\* clean_data_for_db on items, and once more (enabled) on what it returned.
CallClean(items, should_remove_null_bytes) ==
    /\ fnCall' = LET out == clean_data_for_db(items, should_remove_null_bytes)
                 IN [op |-> "clean_data_for_db",
                     items |-> items,
                     should_remove_null_bytes |-> should_remove_null_bytes,
                     out |-> out,
                     again |-> clean_data_for_db(out, TRUE)]
    /\ UNCHANGED <<max_pool_size, max_size, checkedOut, call, tasks, firstFailed, otherHeld>>

\* One call is studied per behaviour.
NextClean ==
    /\ fnCall = NoCall
    /\ \E items \in ItemLists, should_remove_null_bytes \in BOOLEAN :
       CallClean(items, should_remove_null_bytes)

SpecClean == Init /\ [][NextClean]_vars

Cleaned == fnCall.op = "clean_data_for_db"

WithoutNul(s) == SelectSeq(s, LAMBDA c : c # "NUL")

\* C17: clean_data_for_db is the identity when disabled and idempotent when
\* enabled; either way it keeps the number and the order of the records.
C17_CleanIdempotentOrIdentity ==
    Cleaned =>
        /\ Len(fnCall.out) = Len(fnCall.items)
        /\ ~fnCall.should_remove_null_bytes => fnCall.out = fnCall.items
        /\ fnCall.should_remove_null_bytes =>
              /\ fnCall.again = fnCall.out
              /\ \A i \in 1..Len(fnCall.items) : fnCall.out[i] = WithoutNul(fnCall.items[i])

\* Two records with null bytes, cleaned: both changed, cleaning again changes nothing.
C17_Witness ==
    /\ Cleaned
    /\ fnCall.should_remove_null_bytes
    /\ Len(fnCall.items) = 2
    /\ fnCall.out[1] # fnCall.items[1]
    /\ fnCall.out[2] # fnCall.items[2]
    /\ fnCall.out[1] # fnCall.out[2]
    /\ fnCall.again = fnCall.out

\* ----------------------------------------------------------------- liveness

\* Fair scheduling: a spawned task is polled, a pending statement execution
\* finishes, a task waiting on the pool gets a connection if one is free
\* again and again, tasks of other calls give their connection back, and the
\* join is polled.  A failing acquisition is possible but never required.
Fairness ==
    /\ \A i \in TaskIds :
          /\ WF_vars(TaskStart(i) \/ TaskPanic(i))
          /\ SF_vars(Get(i))
          /\ WF_vars(\E s \in BOOLEAN, p \in BOOLEAN : Execute(i, s, p))
    /\ WF_vars(\E c \in 1..(MaxPoolSize + MaxOtherTasks) : OtherRelease(c))
    /\ WF_vars(JoinReturn \/ JoinAbort)

\* The pools that can be exhausted: those configured with a max_pool_size
\* the chunk tasks can exceed (the default of 150 connections is never
\* exhausted by the tasks considered here).
FairInit == Init /\ max_pool_size.some

FairSpec == FairInit /\ [][Next]_vars /\ Fairness

TaskEnded(i) == i \in TaskSet /\ Ended(tasks[i])

\* C18: under fair scheduling, with every statement execution terminating,
\* every chunk task ends and execute_in_chunks completes, also with more
\* chunk tasks than connections: no set of tasks deadlocks on the pool.
C18_EveryTaskAndTheCallComplete ==
    /\ \A i \in TaskIds : (i \in TaskSet) ~> TaskEnded(i)
    /\ [](call.status = "joining" => <>(call.status \in {"returned", "join_panicked"}))

\* Both chunk tasks of the call want the only connection: one executes on
\* it, the other waits.
C18_Witness ==
    /\ max_size = 1
    /\ otherHeld = {}
    /\ \E i, j \in TaskSet : tasks[i].pc = "exec" /\ tasks[j].pc = "get"

\* ------------------------------------------------------------ empty batch

EmptyBatchCalled == call.status # "idle" /\ call.items = <<>> /\ call.chunk_size >= 1

\* C19: for an empty batch and a chunk size k >= 1, execute_in_chunks spawns
\* no chunk task, builds no statement, takes no connection from the pool and
\* returns Ok: the join is ready at once and nothing else can happen to the call.
C19_EmptyBatchIsNoOp ==
    EmptyBatchCalled =>
        /\ tasks = <<>>
        /\ checkedOut = otherHeld
        /\ call.status \in {"joining", "returned"}
        /\ call.status = "joining" => ENABLED JoinReturn /\ ~ENABLED JoinAbort
        /\ Returned => call.result = Ok

\* The empty batch was submitted with chunk size 2 and the call has returned.
C19_Witness ==
    /\ EmptyBatchCalled
    /\ call.chunk_size = 2
    /\ Returned
    /\ call.result = Ok

\* --------------------------------------------------------- chunk size zero

ZeroChunkSizeCalled == call.status # "idle" /\ call.chunk_size = 0

\* The two ways get_config_table_chunk_size hands out a chunk size of 0: an
\* override of 0, and without override a field count above the ceiling.
ZeroChunkSizeReachable ==
    /\ \A f \in FieldCounts :
          get_config_table_chunk_size("events", [t \in {"events"} |-> 0], f) = Value(0)
    /\ \A f \in FieldCounts :
          f > MAX_DIESEL_PARAM_SIZE =>
              get_config_table_chunk_size("events", [t \in {} |-> 0], f) = Value(0)

\* The call that was given chunk size 0 has aborted while splitting: no chunk
\* task, no connection taken by it, no result.
C20_Aborted ==
    ZeroChunkSizeCalled =>
        /\ call.status = "split_panicked"
        /\ tasks = <<>>
        /\ checkedOut = otherHeld
        /\ call.result = NoResult
        /\ ~ENABLED JoinReturn
        /\ ~ENABLED JoinAbort

\* Once aborted, the call and its (absent) tasks never change again.
C20_StaysAborted ==
    call.status = "split_panicked" => call' = call /\ tasks' = tasks

\* C20: a chunk size of 0, which get_config_table_chunk_size yields for a 0
\* override and for a field count above the ceiling, makes execute_in_chunks
\* abort before it spawns a chunk task or takes a connection, for every batch
\* and for the empty one too; the call does not go on and never returns Ok.
C20_ZeroChunkSizeAborts ==
    /\ []ZeroChunkSizeReachable
    /\ []C20_Aborted
    /\ [][C20_StaysAborted]_vars

\* The empty batch was submitted with chunk size 0: the call aborted, and a
\* task of another call goes on using the pool.
C20_Witness ==
    /\ ZeroChunkSizeCalled
    /\ call.items = <<>>
    /\ call.status = "split_panicked"
    /\ otherHeld # {}
====
